---- MODULE Spec2Model ----
(***************************************************************************)
(* A model of the minefield and of the checkerboard of the Google          *)
(* Minesweeper clone (src/minesweeper/minesweeper.py).                     *)
(*                                                                         *)
(* Three state machines share the variables below:                         *)
(*   GenSpec    Minefield.generate, one step per sampling of the mines     *)
(*   SweepSpec  Minefield.minesweep, one step per iteration of its loop    *)
(*   Spec       the game: one step per mouse event the window delivers to  *)
(*              the Checkerboard, or per difficulty change                 *)
(* A cell is the pair <<row, column>>; a 2d list is a function of cells.   *)
(***************************************************************************)
EXTENDS Integers, Sequences, FiniteSets, TLC

VARIABLES
    pc,              \* the position of the operation being run
    grid,            \* a Minefield: [rows, columns, grid, empty]
    n,               \* generate_mines: the argument n; line 164 clamps it
    clear_position,  \* generate_mines: Optional[int], {} for None, {i} for i
    positions,       \* generate_mines: the sample drawn last
    row, column,     \* minesweep: the start coordinate
    queue,           \* minesweep: the Queue, a sequence of cells
    uncovered,       \* minesweep: the mask being filled
    marks,           \* minesweep: how often each cell was assigned True
    difficulty,      \* Game._difficulty
    revealed,        \* Checkerboard.revealed, as the set of the True cells
    flags,           \* Checkerboard.flags, as the set of its keys
    has_started,     \* Checkerboard.has_started
    attached,        \* whether the window's handler stack holds the checkerboard
    log,             \* what the last handler did, in order: uncovers and events
    event_stack,     \* the window's handler stack, its top first
    scale,           \* PositionTransformer.scale, a pair
    delivered        \* the handlers the last mouse event reached, in order

vars == << pc, grid, n, clear_position, positions, row, column, queue,
           uncovered, marks, difficulty, revealed, flags, has_started,
           attached, log, event_stack, scale, delivered >>

genVars == << n, clear_position, positions >>
sweepVars == << row, column, queue, uncovered, marks >>
gameVars == << difficulty, revealed, flags, has_started, attached, log >>
windowVars == << event_stack, scale, delivered >>

(* the specifications of the minefield and of the checkerboard leave the
   window's handler stack out *)
NoWindow == event_stack = << >> /\ scale = <<1, 1>> /\ delivered = << >>

(***************************************************************************)
(* The bounds of the model: the boards are Rows x Columns with Mines       *)
(* mines, scaled down from DIFFICULTY_SETTINGS.                            *)
(***************************************************************************)
Rows == 2
Columns == 3
Mines == 2
Tile == 2
MaxFlags == 2

(* minesweep is run on every board up to SweepRows x SweepColumns *)
SweepRows == 3
SweepColumns == 3
MaxMasked == 2

HeaderHeight == 60

MINE == 9

Min(a, b) == IF a < b THEN a ELSE b

FourNeighbours == << <<1, 0>>, <<0, -1>>, <<-1, 0>>, <<0, 1>> >>

(* Ordinal: the eight (dy, dx) offsets, in the order of the enumeration. *)
Ordinal ==
    << <<1, 0>>, <<1, -1>>, <<0, -1>>, <<-1, -1>>,
       <<-1, 0>>, <<-1, 1>>, <<0, 1>>, <<1, 1>> >>

create_grid(rows, columns, fill) ==
    [cell \in (0 .. rows - 1) \X (0 .. columns - 1) |-> fill]

(* Minefield.__init__ *)
Minefield(rows, columns) ==
    [rows |-> rows, columns |-> columns,
     grid |-> create_grid(rows, columns, 0), empty |-> TRUE]

(* Minefield(rows, columns) as a call: __init__ has no raise statement and
   create_grid builds [[fill] * columns for _ in range(rows)], which is a
   list without cells when rows or columns is not positive *)
NewMinefield(rows, columns) ==
    [raised |-> "nothing", minefield |-> Minefield(rows, columns)]

(* Minefield.__getitem__, used as grid[row][column]: the indexing of the
   list of rows and then of the row, where Python counts a negative index
   from the end and raises IndexError beyond either end *)
getitem(m, r, c) ==
    IF r < -m.rows \/ r >= m.rows \/ c < -m.columns \/ c >= m.columns
    THEN [raised |-> "IndexError", value |-> -1]
    ELSE [raised |-> "nothing",
          value |-> m.grid[<<r % m.rows, c % m.columns>>]]

area(m) == m.rows * m.columns

valid_index(m, r, c) ==
    (0 <= r /\ r < m.rows) /\ (0 <= c /\ c < m.columns)

get_adjacents(m, r, c) ==
    SelectSeq(<< <<r - 1, c - 1>>, <<r - 1, c>>, <<r - 1, c + 1>>,
                 <<r, c - 1>>, <<r, c + 1>>,
                 <<r + 1, c - 1>>, <<r + 1, c>>, <<r + 1, c + 1>> >>,
              LAMBDA a : valid_index(m, a[1], a[2]))

get_mines(m) == {cell \in DOMAIN m.grid : m.grid[cell] = MINE}

(***************************************************************************)
(* Minefield.generate_mines, in its parts.                                 *)
(***************************************************************************)
(* n = min(n, self.columns * self.rows) *)
clamp_mines(m, requested) == Min(requested, m.columns * m.rows)

(* random.sample(range(columns * rows), n): every set of n distinct indices *)
sample(m, k) ==
    {s \in SUBSET (0 .. m.columns * m.rows - 1) : Cardinality(s) = k}

(* the test of: while clear_position in positions *)
NeverResample(clear, drawn) == FALSE

must_resample(clear, drawn) == clear \cap drawn # {}

PlaceByRows(m, drawn) ==
    LET mined == {<<pos \div m.rows, pos % m.columns>> : pos \in drawn}
    IN  [m EXCEPT !.grid = [cell \in DOMAIN m.grid |->
                               IF cell \in mined THEN MINE ELSE m.grid[cell]]]

(* for pos in positions: grid[pos // columns][pos % columns] = MINE *)
place_mines(m, drawn) ==
    LET mined == {<<pos \div m.columns, pos % m.columns>> : pos \in drawn}
    IN  [m EXCEPT !.grid = [cell \in DOMAIN m.grid |->
                               IF cell \in mined THEN MINE ELSE m.grid[cell]]]

(***************************************************************************)
(* Minefield.generate_surroundings: the cells in row-major order, each     *)
(* zero cell overwritten in place by the count of the mines around it.     *)
(***************************************************************************)
count_mines(m, r, c) ==
    Cardinality({i \in 1 .. Len(Ordinal) :
        /\ valid_index(m, r + Ordinal[i][1], c + Ordinal[i][2])
        /\ m.grid[<<r + Ordinal[i][1], c + Ordinal[i][2]>>] = MINE})

RECURSIVE surroundings_from(_, _)
surroundings_from(m, k) ==
    IF k >= m.rows * m.columns THEN m
    ELSE LET r == k \div m.columns
             c == k % m.columns
         IN  IF m.grid[<<r, c>>] # 0
             THEN surroundings_from(m, k + 1)
             ELSE surroundings_from(
                      [m EXCEPT !.grid[<<r, c>>] = count_mines(m, r, c)], k + 1)

generate_surroundings(m) == surroundings_from(m, 0)

(***************************************************************************)
(* GenSpec: generate(n, clear_position) on a freshly constructed           *)
(* minefield.  pc: "idle" -> "sampled" (at the while test) -> "generated". *)
(***************************************************************************)
GenInit ==
    /\ NoWindow
    /\ pc = "idle"
    /\ \E rows \in 1 .. Rows, columns \in 1 .. Columns :
           grid = Minefield(rows, columns)
    /\ n = 0 /\ clear_position = {} /\ positions = {}
    /\ row = 0 /\ column = 0 /\ queue = << >>
    /\ uncovered = << >> /\ marks = << >>
    /\ difficulty = "none" /\ revealed = {} /\ flags = {}
    /\ has_started = FALSE /\ attached = FALSE /\ log = << >>

(* lines 162-167: the call, the clamp and the first sample *)
GenCall ==
    /\ pc = "idle"
    /\ \E requested \in 0 .. area(grid) + 1,
          clear \in {{}} \cup {{i} : i \in -1 .. area(grid)} :
           /\ n' = requested
           /\ clear_position' = clear
           /\ \E drawn \in sample(grid, clamp_mines(grid, requested)) :
                  positions' = drawn
    /\ grid' = [grid EXCEPT !.empty = FALSE]
    /\ pc' = "sampled"
    /\ UNCHANGED << sweepVars, gameVars, windowVars >>

(* lines 170-172: clear_position is in positions, sample again *)
GenResample ==
    /\ pc = "sampled"
    /\ must_resample(clear_position, positions)
    /\ \E drawn \in sample(grid, clamp_mines(grid, n)) : positions' = drawn
    /\ UNCHANGED << pc, grid, n, clear_position, sweepVars, gameVars, windowVars >>

(* lines 174-175 and generate_surroundings: the loop is left *)
GenPlace ==
    /\ pc = "sampled"
    /\ ~must_resample(clear_position, positions)
    /\ grid' = generate_surroundings(place_mines(grid, positions))
    /\ pc' = "generated"
    /\ UNCHANGED << genVars, sweepVars, gameVars, windowVars >>

GenNext == GenCall \/ GenResample \/ GenPlace

GenSpec == GenInit /\ [][GenNext]_vars

(***************************************************************************)
(* Minefield.minesweep: the breadth-first flood fill.                      *)
(* sweep_iteration is one iteration of `while not queue.empty()`: the      *)
(* queue and the mask it leaves, and the cells it assigned True.           *)
(***************************************************************************)
offsets_from(cell, deltas) ==
    [i \in 1 .. Len(deltas) |-> <<cell[1] + deltas[i][1], cell[2] + deltas[i][2]>>]

SweepThroughNumbers(m, q, mask) ==
    LET cell == Head(q)
    IN  IF (~valid_index(m, cell[1], cell[2])) \/ mask[cell]
        THEN [queue |-> Tail(q), uncovered |-> mask, marked |-> {}]
        ELSE [queue |-> Tail(q) \o offsets_from(cell, Ordinal),
              uncovered |-> [mask EXCEPT ![cell] = TRUE], marked |-> {cell}]

SweepFourWay(m, q, mask) ==
    LET cell == Head(q)
    IN  IF (~valid_index(m, cell[1], cell[2])) \/ mask[cell]
        THEN [queue |-> Tail(q), uncovered |-> mask, marked |-> {}]
        ELSE IF m.grid[cell] # 0
        THEN [queue |-> Tail(q),
              uncovered |-> [mask EXCEPT ![cell] = TRUE], marked |-> {cell}]
        ELSE [queue |-> Tail(q) \o offsets_from(cell, FourNeighbours),
              uncovered |-> [mask EXCEPT ![cell] = TRUE], marked |-> {cell}]

sweep_iteration(m, q, mask) ==
    LET cell == Head(q)
    IN  IF (~valid_index(m, cell[1], cell[2])) \/ mask[cell]
        THEN [queue |-> Tail(q), uncovered |-> mask, marked |-> {}]
        ELSE IF m.grid[cell] # 0
        THEN [queue |-> Tail(q),
              uncovered |-> [mask EXCEPT ![cell] = TRUE], marked |-> {cell}]
        ELSE [queue |-> Tail(q) \o offsets_from(cell, Ordinal),
              uncovered |-> [mask EXCEPT ![cell] = TRUE], marked |-> {cell}]

RECURSIVE minesweep_loop(_, _, _)
minesweep_loop(m, q, mask) ==
    IF q = << >> THEN mask
    ELSE LET it == sweep_iteration(m, q, mask)
         IN  minesweep_loop(m, it.queue, it.uncovered)

(* minesweep(row, column, uncovered); the callers that pass no mask get
   create_grid(rows, columns, False) *)
minesweep(m, r, c, mask) ==
    IF ~valid_index(m, r, c) THEN mask
    ELSE minesweep_loop(m, << <<r, c>> >>, mask)

(***************************************************************************)
(* SweepSpec: minesweep(row, column) with a fresh mask on a generated      *)
(* grid.  pc: "sweep_call" -> "sweeping" (at the while test) -> "swept".   *)
(***************************************************************************)
GeneratedGrids ==
    UNION {{generate_surroundings(
                place_mines([Minefield(rows, columns) EXCEPT !.empty = FALSE], drawn)) :
            drawn \in UNION {sample(Minefield(rows, columns), k) : k \in 0 .. Mines}} :
           rows \in 1 .. SweepRows, columns \in 1 .. SweepColumns}

SweepInit ==
    /\ NoWindow
    /\ pc = "sweep_call"
    /\ grid \in GeneratedGrids
    /\ row \in -1 .. grid.rows
    /\ column \in -1 .. grid.columns
    /\ queue = << >>
    /\ uncovered = << >>
    /\ marks = [cell \in DOMAIN grid.grid |-> 0]
    /\ n = 0 /\ clear_position = {} /\ positions = {}
    /\ difficulty = "none" /\ revealed = {} /\ flags = {}
    /\ has_started = FALSE /\ attached = FALSE /\ log = << >>

(* lines 196-203: the fresh mask, the early return, the first put *)
SweepCall ==
    /\ pc = "sweep_call"
    /\ uncovered' = create_grid(grid.rows, grid.columns, FALSE)
    /\ IF ~valid_index(grid, row, column)
       THEN pc' = "swept" /\ queue' = queue
       ELSE pc' = "sweeping" /\ queue' = << <<row, column>> >>
    /\ UNCHANGED << grid, row, column, marks, genVars, gameVars, windowVars >>

(* lines 205-215: one iteration of the loop *)
SweepIterate ==
    /\ pc = "sweeping"
    /\ queue # << >>
    /\ LET it == sweep_iteration(grid, queue, uncovered)
       IN  /\ queue' = it.queue
           /\ uncovered' = it.uncovered
           /\ marks' = [cell \in DOMAIN marks |->
                           IF cell \in it.marked THEN marks[cell] + 1
                           ELSE marks[cell]]
    /\ UNCHANGED << pc, grid, row, column, genVars, gameVars, windowVars >>

(* lines 205 and 217: the queue is empty, the mask is returned *)
SweepReturn ==
    /\ pc = "sweeping"
    /\ queue = << >>
    /\ pc' = "swept"
    /\ UNCHANGED << grid, row, column, queue, uncovered, marks, genVars, gameVars, windowVars >>

SweepNext == SweepCall \/ SweepIterate \/ SweepReturn

SweepSpec == SweepInit /\ [][SweepNext]_vars

(* the loop is sequential code: an iteration that can run does run *)
SweepFairSpec == SweepSpec /\ WF_vars(SweepNext)

(***************************************************************************)
(* The other two flood fills, and VariantSpec: the three of them called    *)
(* with the same generated grid, start cell and initial mask, each on its  *)
(* own copy of the mask.  pc: "variants_call" -> "breadth_done" ->         *)
(* "depth_done" -> "variants_done".  positions keeps the cells of the      *)
(* initial mask, uncovered gets the mask minesweep returns, marks the mask *)
(* recursive_minesweep returns, queue the cells minesweep_iter yields, in  *)
(* order.                                                                  *)
(***************************************************************************)
RECURSIVE recursive_minesweep(_, _, _, _)
RECURSIVE recursive_over(_, _, _, _)
RECURSIVE DepthFirstFourWay(_, _, _, _)

(* lines 234-236: the recursive calls on the neighbours, from the k-th
   offset of Ordinal on, each on the mask the one before returned *)
recursive_over(m, cell, mask, k) ==
    IF k > Len(Ordinal) THEN mask
    ELSE recursive_over(m, cell,
             recursive_minesweep(m, cell[1] + Ordinal[k][1],
                                 cell[2] + Ordinal[k][2], mask),
             k + 1)

DepthFirstFourWay(m, r, c, mask) ==
    IF (~valid_index(m, r, c)) \/ mask[<<r, c>>] THEN mask
    ELSE IF m.grid[<<r, c>>] # 0 THEN [mask EXCEPT ![<<r, c>>] = TRUE]
    ELSE LET marked == [mask EXCEPT ![<<r, c>>] = TRUE]
             down == DepthFirstFourWay(m, r + 1, c, marked)
             left == DepthFirstFourWay(m, r, c - 1, down)
             up == DepthFirstFourWay(m, r - 1, c, left)
         IN  DepthFirstFourWay(m, r, c + 1, up)

recursive_minesweep(m, r, c, mask) ==
    IF (~valid_index(m, r, c)) \/ mask[<<r, c>>] THEN mask
    ELSE IF m.grid[<<r, c>>] # 0 THEN [mask EXCEPT ![<<r, c>>] = TRUE]
    ELSE recursive_over(m, <<r, c>>, [mask EXCEPT ![<<r, c>>] = TRUE], 1)

(* lines 254-265: one iteration of the loop of minesweep_iter *)
iter_iteration(m, q, mask) ==
    LET cell == Head(q)
    IN  IF (~valid_index(m, cell[1], cell[2])) \/ mask[cell]
        THEN [queue |-> Tail(q), uncovered |-> mask, yielded |-> << >>]
        ELSE IF m.grid[cell] # 0
        THEN [queue |-> Tail(q),
              uncovered |-> [mask EXCEPT ![cell] = TRUE], yielded |-> << cell >>]
        ELSE [queue |-> Tail(q) \o offsets_from(cell, Ordinal),
              uncovered |-> [mask EXCEPT ![cell] = TRUE], yielded |-> << cell >>]

RECURSIVE iter_loop(_, _, _, _)
iter_loop(m, q, mask, out) ==
    IF q = << >> THEN out
    ELSE LET it == iter_iteration(m, q, mask)
         IN  iter_loop(m, it.queue, it.uncovered, out \o it.yielded)

(* minesweep_iter(row, column, uncovered): the cells the generator yields *)
minesweep_iter(m, r, c, mask) ==
    IF ~valid_index(m, r, c) THEN << >>
    ELSE iter_loop(m, << <<r, c>> >>, mask, << >>)

(* the masks a caller can pass: at most MaxMasked cells uncovered *)
InitialMasks(m) ==
    {[cell \in DOMAIN m.grid |-> cell \in covered] :
        covered \in {cs \in SUBSET DOMAIN m.grid : Cardinality(cs) <= MaxMasked}}

VariantInit ==
    /\ NoWindow
    /\ pc = "variants_call"
    /\ grid \in GeneratedGrids
    /\ row \in -1 .. grid.rows
    /\ column \in -1 .. grid.columns
    /\ uncovered \in InitialMasks(grid)
    /\ positions = {cell \in DOMAIN grid.grid : uncovered[cell]}
    /\ queue = << >>
    /\ marks = << >>
    /\ n = 0 /\ clear_position = {}
    /\ difficulty = "none" /\ revealed = {} /\ flags = {}
    /\ has_started = FALSE /\ attached = FALSE /\ log = << >>

VariantBreadthFirst ==
    /\ pc = "variants_call"
    /\ pc' = "breadth_done"
    /\ marks' = [cell \in DOMAIN grid.grid |-> cell \in positions]
    /\ uncovered' = minesweep(grid, row, column, uncovered)
    /\ UNCHANGED << grid, row, column, queue, genVars, gameVars, windowVars >>

VariantDepthFirst ==
    /\ pc = "breadth_done"
    /\ pc' = "depth_done"
    /\ marks' = recursive_minesweep(grid, row, column, marks)
    /\ UNCHANGED << grid, row, column, queue, uncovered, genVars, gameVars, windowVars >>

VariantIter ==
    /\ pc = "depth_done"
    /\ pc' = "variants_done"
    /\ queue' = minesweep_iter(grid, row, column,
                     [cell \in DOMAIN grid.grid |-> cell \in positions])
    /\ UNCHANGED << grid, row, column, marks, uncovered, genVars, gameVars, windowVars >>

VariantNext == VariantBreadthFirst \/ VariantDepthFirst \/ VariantIter

VariantSpec == VariantInit /\ [][VariantNext]_vars

(***************************************************************************)
(* The game.  DIFFICULTY_SETTINGS scaled down to the bounds: two presets   *)
(* with a guaranteed start, a sparse one (as Easy) and a dense one (as     *)
(* Bosnia), and Lottery, whose board is generated at construction with all *)
(* cells but one mined.                                                    *)
(***************************************************************************)
Difficulties == {"Easy", "Bosnia", "Lottery"}

DIFFICULTY_SETTINGS(d) ==
    IF d = "Lottery"
    THEN [columns |-> Columns, rows |-> Rows, tile |-> Tile,
          mines |-> Rows * Columns - 1, guaranteed_start |-> FALSE]
    ELSE IF d = "Bosnia"
    THEN [columns |-> Columns, rows |-> Rows, tile |-> Tile,
          mines |-> Mines, guaranteed_start |-> TRUE]
    ELSE [columns |-> Columns, rows |-> Rows, tile |-> Tile,
          mines |-> Mines - 1, guaranteed_start |-> TRUE]

(* generate(n, clear_position) once it has returned with the sample drawn *)
generate(m, drawn) ==
    generate_surroundings(place_mines([m EXCEPT !.empty = FALSE], drawn))

(* the samples with which generate_mines leaves its loop *)
generate_samples(m, requested, clear) ==
    {drawn \in sample(m, clamp_mines(m, requested)) : ~must_resample(clear, drawn)}

(***************************************************************************)
(* A Checkerboard in the middle of a handler is the record                 *)
(*   [grid, mines, revealed, flags, has_started, attached, log]            *)
(* log gets an entry per call of grid.minesweep by minesweep_from_cell,    *)
(* per call of uncover and per event dispatched.                           *)
(***************************************************************************)
FailUncoversEveryMine(cb, cell) ==
    [cb EXCEPT !.log = Append(@, [ev |-> "on_fail", cell |-> cell]),
               !.attached = FALSE,
               !.revealed = @ \cup get_mines(cb.grid)]

(* Game.on_fail: remove_handlers(self.checkerboard) *)
on_fail(cb, cell) ==
    [cb EXCEPT !.log = Append(@, [ev |-> "on_fail", cell |-> cell]),
               !.attached = FALSE]

(* Game.on_success: remove_handlers(self.checkerboard) *)
on_success(cb) ==
    [cb EXCEPT !.log = Append(@, [ev |-> "on_success"]),
               !.attached = FALSE]

KeepFlag(cb, cell) == cb

(* lines 474-477 *)
remove_flag_at(cb, cell) ==
    IF cell \in cb.flags
    THEN [cb EXCEPT !.flags = @ \ {cell},
                    !.log = Append(@, [ev |-> "on_flag_remove", cell |-> cell])]
    ELSE cb

UncoverCountsBefore(cb, r, c) ==
    LET cell == <<r, c>>
        started == [cb EXCEPT !.has_started = TRUE,
                              !.revealed = @ \cup {cell},
                              !.log = Append(@, [ev |-> "uncover", cell |-> cell])]
    IN  IF cb.grid.grid[cell] = MINE
        THEN on_fail(started, cell)
        ELSE remove_flag_at(
                 IF area(cb.grid) - Cardinality(cb.revealed) = cb.mines
                 THEN on_success(started) ELSE started,
                 cell)

(* Checkerboard.uncover *)
uncover(cb, r, c) ==
    LET cell == <<r, c>>
        started == [cb EXCEPT !.has_started = TRUE,
                              !.revealed = @ \cup {cell},
                              !.log = Append(@, [ev |-> "uncover", cell |-> cell])]
    IN  IF cb.grid.grid[cell] = MINE
        THEN on_fail(started, cell)
        ELSE remove_flag_at(
                 IF area(cb.grid) - Cardinality(started.revealed) = cb.mines
                 THEN on_success(started) ELSE started,
                 cell)

RECURSIVE UncoverSkipsFlags(_, _, _)
UncoverSkipsFlags(cb, diff, k) ==
    IF k >= cb.grid.rows * cb.grid.columns THEN cb
    ELSE LET r == k \div cb.grid.columns
             c == k % cb.grid.columns
         IN  IF diff[<<r, c>>] /\ <<r, c>> \notin cb.revealed
                /\ <<r, c>> \notin cb.flags
             THEN UncoverSkipsFlags(uncover(cb, r, c), diff, k + 1)
             ELSE UncoverSkipsFlags(cb, diff, k + 1)

(* Checkerboard.uncover_all: the cells of diff in row-major order, from the
   linear index k on *)
RECURSIVE uncover_from(_, _, _)
uncover_from(cb, diff, k) ==
    IF k >= cb.grid.rows * cb.grid.columns THEN cb
    ELSE LET r == k \div cb.grid.columns
             c == k % cb.grid.columns
         IN  IF diff[<<r, c>>] /\ <<r, c>> \notin cb.revealed
             THEN uncover_from(uncover(cb, r, c), diff, k + 1)
             ELSE uncover_from(cb, diff, k + 1)

uncover_all(cb, diff) == uncover_from(cb, diff, 0)

SweepFlaggedCellToo(cb, r, c, drawn) ==
    LET made == IF cb.grid.empty
                THEN [cb EXCEPT !.grid = generate(cb.grid, drawn)]
                ELSE cb
    IN  IF valid_index(made.grid, r, c) /\ <<r, c>> \notin made.revealed
        THEN uncover_all(
                 [made EXCEPT !.log = Append(@, [ev |-> "minesweep", cell |-> <<r, c>>])],
                 minesweep(made.grid, r, c,
                     create_grid(made.grid.rows, made.grid.columns, FALSE)))
        ELSE made

SweepGeneratesAgain(cb, r, c, drawn) ==
    LET made == [cb EXCEPT !.grid = generate(cb.grid, drawn)]
    IN  IF <<r, c>> \notin made.flags
           /\ (valid_index(made.grid, r, c) /\ <<r, c>> \notin made.revealed)
        THEN uncover_all(
                 [made EXCEPT !.log = Append(@, [ev |-> "minesweep", cell |-> <<r, c>>])],
                 minesweep(made.grid, r, c,
                     create_grid(made.grid.rows, made.grid.columns, FALSE)))
        ELSE made

SweepRevealedCellToo(cb, r, c, drawn) ==
    LET made == IF cb.grid.empty
                THEN [cb EXCEPT !.grid = generate(cb.grid, drawn)]
                ELSE cb
    IN  IF <<r, c>> \notin made.flags /\ valid_index(made.grid, r, c)
        THEN uncover_all(
                 [made EXCEPT !.log = Append(@, [ev |-> "minesweep", cell |-> <<r, c>>]),
                              !.revealed = @ \ {<<r, c>>}],
                 minesweep(made.grid, r, c,
                     create_grid(made.grid.rows, made.grid.columns, FALSE)))
        ELSE made

(* Checkerboard.minesweep_from_cell; drawn is the sample generate ends with
   when the grid is still empty *)
minesweep_from_cell(cb, r, c, drawn) ==
    LET made == IF cb.grid.empty
                THEN [cb EXCEPT !.grid = generate(cb.grid, drawn)]
                ELSE cb
    IN  IF <<r, c>> \notin made.flags
           /\ (valid_index(made.grid, r, c) /\ <<r, c>> \notin made.revealed)
        THEN uncover_all(
                 [made EXCEPT !.log = Append(@, [ev |-> "minesweep", cell |-> <<r, c>>])],
                 minesweep(made.grid, r, c,
                     create_grid(made.grid.rows, made.grid.columns, FALSE)))
        ELSE made

FlagStartsTheGame(cb, r, c) ==
    LET made == IF cb.grid.empty
                THEN [cb EXCEPT !.has_started = TRUE,
                                !.grid = generate(cb.grid,
                                    CHOOSE drawn \in generate_samples(cb.grid, cb.mines,
                                                      {r * cb.grid.columns + c}) : TRUE)]
                ELSE cb
    IN  IF <<r, c>> \in made.flags
        THEN [made EXCEPT !.flags = @ \ {<<r, c>>},
                          !.log = Append(@, [ev |-> "on_flag_remove", cell |-> <<r, c>>])]
        ELSE IF valid_index(made.grid, r, c) /\ <<r, c>> \notin made.revealed
        THEN [made EXCEPT !.flags = @ \cup {<<r, c>>},
                          !.log = Append(@, [ev |-> "on_flag_place", cell |-> <<r, c>>])]
        ELSE made

FlagRevealedCellToo(cb, r, c) ==
    IF <<r, c>> \in cb.flags
    THEN [cb EXCEPT !.flags = @ \ {<<r, c>>},
                    !.log = Append(@, [ev |-> "on_flag_remove", cell |-> <<r, c>>])]
    ELSE IF valid_index(cb.grid, r, c)
    THEN [cb EXCEPT !.flags = @ \cup {<<r, c>>},
                    !.log = Append(@, [ev |-> "on_flag_place", cell |-> <<r, c>>])]
    ELSE cb

(* Checkerboard.toggle_flag *)
toggle_flag(cb, r, c) ==
    IF <<r, c>> \in cb.flags
    THEN [cb EXCEPT !.flags = @ \ {<<r, c>>},
                    !.log = Append(@, [ev |-> "on_flag_remove", cell |-> <<r, c>>])]
    ELSE IF valid_index(cb.grid, r, c) /\ <<r, c>> \notin cb.revealed
    THEN [cb EXCEPT !.flags = @ \cup {<<r, c>>},
                    !.log = Append(@, [ev |-> "on_flag_place", cell |-> <<r, c>>])]
    ELSE cb

(* what toggle_flag returns: False, True or None *)
toggle_flag_status(cb, r, c) ==
    IF <<r, c>> \in cb.flags THEN "False"
    ELSE IF valid_index(cb.grid, r, c) /\ <<r, c>> \notin cb.revealed THEN "True"
    ELSE "None"

(* the chord of on_mouse_press, lines 643-644: minesweep_from_cell on each
   adjacent cell in turn, from the k-th on *)
RECURSIVE chord_from(_, _, _)
chord_from(cb, adjacents, k) ==
    IF k > Len(adjacents) THEN cb
    ELSE chord_from(
             minesweep_from_cell(cb, adjacents[k][1], adjacents[k][2], {}),
             adjacents, k + 1)

ChordWithEnoughFlags(cb, tile, x, y, button, drawn) ==
    LET r == y \div tile
        c == x \div tile
    IN  IF button = "LEFT" THEN minesweep_from_cell(cb, r, c, drawn)
        ELSE IF button = "MIDDLE" /\ valid_index(cb.grid, r, c)
                /\ <<r, c>> \in cb.revealed
        THEN LET adjacents == get_adjacents(cb.grid, r, c)
                 surrounding_flags ==
                     Cardinality({i \in 1 .. Len(adjacents) : adjacents[i] \in cb.flags})
             IN  IF surrounding_flags >= cb.grid.grid[<<r, c>>]
                 THEN chord_from(cb, adjacents, 1)
                 ELSE cb
        ELSE IF button = "RIGHT" THEN toggle_flag(cb, r, c)
        ELSE cb

ChordOnCoveredCell(cb, tile, x, y, button, drawn) ==
    LET r == y \div tile
        c == x \div tile
    IN  IF button = "LEFT" THEN minesweep_from_cell(cb, r, c, drawn)
        ELSE IF button = "MIDDLE" /\ valid_index(cb.grid, r, c)
        THEN LET adjacents == get_adjacents(cb.grid, r, c)
                 surrounding_flags ==
                     Cardinality({i \in 1 .. Len(adjacents) : adjacents[i] \in cb.flags})
             IN  IF surrounding_flags = cb.grid.grid[<<r, c>>]
                 THEN chord_from(cb, adjacents, 1)
                 ELSE cb
        ELSE IF button = "RIGHT" THEN toggle_flag(cb, r, c)
        ELSE cb

(* Checkerboard.on_mouse_press, for the three buttons it does not reject *)
on_mouse_press(cb, tile, x, y, button, drawn) ==
    LET r == y \div tile
        c == x \div tile
    IN  IF button = "LEFT" THEN minesweep_from_cell(cb, r, c, drawn)
        ELSE IF button = "MIDDLE" /\ valid_index(cb.grid, r, c)
                /\ <<r, c>> \in cb.revealed
        THEN LET surrounding_mines == cb.grid.grid[<<r, c>>]
                 adjacents == get_adjacents(cb.grid, r, c)
                 surrounding_flags ==
                     Cardinality({i \in 1 .. Len(adjacents) : adjacents[i] \in cb.flags})
             IN  IF surrounding_flags = surrounding_mines
                 THEN chord_from(cb, adjacents, 1)
                 ELSE cb
        ELSE IF button = "RIGHT" THEN toggle_flag(cb, r, c)
        ELSE cb

(* Checkerboard.on_mouse_drag: the left button sweeps, the middle one only
   moves the highlight *)
on_mouse_drag(cb, tile, x, y, buttons, drawn) ==
    IF buttons = "LEFT"
    THEN minesweep_from_cell(cb, y \div tile, x \div tile, drawn)
    ELSE cb

(* the checkerboard of the state, at the start of a handler *)
checkerboard ==
    [grid |-> grid, mines |-> DIFFICULTY_SETTINGS(difficulty).mines,
     revealed |-> revealed, flags |-> flags, has_started |-> has_started,
     attached |-> attached, log |-> << >>]

Becomes(cb) ==
    /\ grid' = cb.grid
    /\ revealed' = cb.revealed
    /\ flags' = cb.flags
    /\ has_started' = cb.has_started
    /\ attached' = cb.attached
    /\ log' = cb.log

BoardKeepsItsFlags(d) ==
    LET s == DIFFICULTY_SETTINGS(d)
        m == Minefield(s.rows, s.columns)
    IN  /\ difficulty' = d
        /\ \E drawn \in (IF s.guaranteed_start THEN {{}}
                          ELSE generate_samples(m, s.mines, {})) :
               grid' = IF s.guaranteed_start THEN m ELSE generate(m, drawn)
        /\ revealed' = {}
        /\ flags' = flags
        /\ has_started' = FALSE
        /\ attached' = TRUE
        /\ log' = << >>

(* Checkerboard.__init__ as Game.__init__ and the difficulty setter call it *)
NewCheckerboard(d) ==
    LET s == DIFFICULTY_SETTINGS(d)
        m == Minefield(s.rows, s.columns)
    IN  /\ difficulty' = d
        /\ \E drawn \in (IF s.guaranteed_start THEN {{}}
                          ELSE generate_samples(m, s.mines, {})) :
               grid' = IF s.guaranteed_start THEN m ELSE generate(m, drawn)
        /\ revealed' = {}
        /\ flags' = {}
        /\ has_started' = FALSE
        /\ attached' = TRUE
        /\ log' = << >>

(* the pixels the mouse events are drawn from: the last pixel of every tile
   of the board, and the top row of pixels of the window, in the header
   above the board *)
WindowXs == {c * Tile + Tile - 1 : c \in 0 .. Columns - 1}
WindowYs == {r * Tile + Tile - 1 : r \in 0 .. Rows - 1}
                \cup {Rows * Tile + HeaderHeight - 1}
(* a drag goes on when the pointer has left the window *)
DragXs == WindowXs \cup {-1, Columns * Tile}
DragYs == WindowYs \cup {-1}

(* the sample generate ends with if a sweep at <<r, c>> generates the grid *)
SamplesAt(r, c) ==
    IF grid.empty
    THEN generate_samples(grid, DIFFICULTY_SETTINGS(difficulty).mines,
                          {r * grid.columns + c})
    ELSE {{}}

Init ==
    /\ NoWindow
    /\ pc = "game"
    /\ n = 0 /\ clear_position = {} /\ positions = {}
    /\ row = 0 /\ column = 0 /\ queue = << >>
    /\ uncovered = << >> /\ marks = << >>
    /\ \E d \in Difficulties :
           LET s == DIFFICULTY_SETTINGS(d)
               m == Minefield(s.rows, s.columns)
           IN  /\ difficulty = d
               /\ \E drawn \in (IF s.guaranteed_start THEN {{}}
                                 ELSE generate_samples(m, s.mines, {})) :
                      grid = IF s.guaranteed_start THEN m ELSE generate(m, drawn)
    /\ revealed = {}
    /\ flags = {}
    /\ has_started = FALSE
    /\ attached = TRUE
    /\ log = << >>

(* a mouse press that reaches the checkerboard *)
Press ==
    /\ attached
    /\ \E x \in WindowXs, y \in WindowYs, button \in {"LEFT", "MIDDLE", "RIGHT"} :
         LET tile == DIFFICULTY_SETTINGS(difficulty).tile
         IN  \E drawn \in (IF button = "LEFT"
                           THEN SamplesAt(y \div tile, x \div tile) ELSE {{}}) :
               LET cb == on_mouse_press(checkerboard, tile, x, y, button, drawn)
               IN  /\ Cardinality(cb.flags) <= MaxFlags
                   /\ Becomes(cb)
    /\ UNCHANGED << pc, difficulty, genVars, sweepVars, windowVars >>

(* a mouse drag that reaches the checkerboard *)
Drag ==
    /\ attached
    /\ \E x \in DragXs, y \in DragYs, buttons \in {"LEFT", "MIDDLE"} :
         LET tile == DIFFICULTY_SETTINGS(difficulty).tile
         IN  \E drawn \in (IF buttons = "LEFT"
                           THEN SamplesAt(y \div tile, x \div tile) ELSE {{}}) :
               Becomes(on_mouse_drag(checkerboard, tile, x, y, buttons, drawn))
    /\ UNCHANGED << pc, difficulty, genVars, sweepVars, windowVars >>

(* the difficulty setter, which on_select and on_reset call: the
   checkerboard is deleted and a new one made and attached *)
SetDifficulty ==
    /\ \E d \in Difficulties : NewCheckerboard(d)
    /\ UNCHANGED << pc, genVars, sweepVars, windowVars >>

Next == Press \/ Drag \/ SetDifficulty

Spec == Init /\ [][Next]_vars

(***************************************************************************)
(* The claims about generate.                                              *)
(***************************************************************************)
SafeCells == {safe \in clear_position : 0 <= safe /\ safe < area(grid)}

(* C2: after generate(n, safe) has returned, the cell at the linear index
   safe, <<safe // columns, safe % columns>>, does not hold MINE. *)
C2_SafeCellIsNoMine ==
    pc = "generated" =>
        \A safe \in SafeCells :
            grid.grid[<<safe \div grid.columns, safe % grid.columns>>] # MINE

(* generate has returned with every cell but the safe one mined *)
C2_Witness ==
    /\ pc = "generated"
    /\ SafeCells # {}
    /\ area(grid) >= 2
    /\ Cardinality(get_mines(grid)) = area(grid) - 1

(* the Moore neighbours of a cell: the other cells at most one row and one
   column away *)
MooreNeighbours(m, cell) ==
    {nb \in DOMAIN m.grid :
        /\ nb # cell
        /\ nb[1] - cell[1] \in {-1, 0, 1}
        /\ nb[2] - cell[2] \in {-1, 0, 1}}

CountsAreExact(m) ==
    \A cell \in DOMAIN m.grid :
        m.grid[cell] # MINE =>
            /\ m.grid[cell] \in 0 .. 8
            /\ m.grid[cell] =
                   Cardinality({nb \in MooreNeighbours(m, cell) : m.grid[nb] = MINE})

(* C3: after generate has returned on a fresh grid, every cell that is no
   mine holds the number of mines among its in-bounds Moore neighbours. *)
C3_CountsAreExact == pc = "generated" => CountsAreExact(grid)

(* a generated grid where some cell counts two mines and one of them lies
   diagonally from it *)
C3_Witness ==
    /\ pc = "generated"
    /\ \E cell \in DOMAIN grid.grid :
           /\ grid.grid[cell] = 2
           /\ \E nb \in MooreNeighbours(grid, cell) :
                  /\ grid.grid[nb] = MINE
                  /\ nb[1] # cell[1] /\ nb[2] # cell[2]

(* C4: after generate(n, safe) has returned on a fresh grid, exactly
   min(n, rows * columns) cells hold MINE. *)
C4_MineCountIsClamped ==
    pc = "generated" =>
        Cardinality(get_mines(grid)) = Min(n, grid.rows * grid.columns)

(* generate has returned for a request above the area *)
C4_Witness ==
    /\ pc = "generated"
    /\ n > area(grid)
    /\ get_mines(grid) = DOMAIN grid.grid

(* C5: generate(n, safe) terminates for every n and every safe index:
   wherever the resampling loop stands, it is being left, or some sample
   that random.sample can draw leaves it. *)
C5_GenerateTerminates ==
    (pc = "sampled" /\ must_resample(clear_position, positions)) =>
        \E drawn \in sample(grid, clamp_mines(grid, n)) :
            ~must_resample(clear_position, drawn)

(***************************************************************************)
(* The claims about minesweep.                                             *)
(***************************************************************************)
Uncovered(mask) == {cell \in DOMAIN mask : mask[cell]}

(* the 8-connected region of 0-valued cells that holds the cell `start` *)
RECURSIVE grow_zero_region(_, _)
grow_zero_region(m, region) ==
    LET more == {nb \in DOMAIN m.grid :
                    /\ m.grid[nb] = 0
                    /\ \E z \in region : nb \in MooreNeighbours(m, z)}
    IN  IF more \subseteq region THEN region
        ELSE grow_zero_region(m, region \cup more)

ZeroRegion(m, start) == grow_zero_region(m, {start})

FloodOf(m, start) ==
    IF m.grid[start] # 0 THEN {start}
    ELSE ZeroRegion(m, start) \cup
         UNION {MooreNeighbours(m, z) : z \in ZeroRegion(m, start)}

(* C6: from a fresh mask and a valid start cell, minesweep uncovers exactly
   the start cell when its value is not 0, and otherwise exactly the
   8-connected region of 0-valued cells around it and the cells adjacent to
   that region. *)
C6_FloodFillIsTheZeroRegion ==
    (pc = "swept" /\ valid_index(grid, row, column)) =>
        Uncovered(uncovered) = FloodOf(grid, <<row, column>>)

(* a fill from a 0-valued cell has returned: it uncovered a numbered cell and
   left a cell that is no mine covered behind the numbered ring *)
C6_Witness ==
    /\ pc = "swept"
    /\ valid_index(grid, row, column)
    /\ grid.grid[<<row, column>>] = 0
    /\ \E cell \in Uncovered(uncovered) : grid.grid[cell] \in 1 .. 8
    /\ \E cell \in DOMAIN grid.grid :
           grid.grid[cell] # MINE /\ ~uncovered[cell]

(* an iteration put neighbours in the queue only if it took a valid, covered,
   0-valued cell from it and marked it *)
PutsOnlyFromFreshZero ==
    (pc = "sweeping" /\ queue # << >> /\ Len(queue') >= Len(queue)) =>
        /\ valid_index(grid, Head(queue)[1], Head(queue)[2])
        /\ ~uncovered[Head(queue)]
        /\ grid.grid[Head(queue)] = 0
        /\ uncovered'[Head(queue)]

(* C7: for every start coordinate, valid or not, minesweep terminates (the
   queue empties and the mask is returned), no cell is marked uncovered more
   than once, and neighbours are enqueued only from 0-valued cells that are
   being marked for the first time. *)
C7_FloodFillTerminates ==
    /\ <>(pc = "swept")
    /\ [](\A cell \in DOMAIN marks : marks[cell] <= 1)
    /\ [][PutsOnlyFromFreshZero]_vars

(* a fill of a whole board of at least four cells has returned, each cell
   marked once *)
C7_Witness ==
    /\ pc = "swept"
    /\ queue = << >>
    /\ Cardinality(DOMAIN marks) >= 4
    /\ \A cell \in DOMAIN marks : marks[cell] = 1

(***************************************************************************)
(* The claims about the game.  They read the log of the last handler: the  *)
(* cells it uncovered, in order, and the events it dispatched in between.  *)
(***************************************************************************)
UncoverIdx == {i \in 1 .. Len(log) : log[i].ev = "uncover"}

(* the cells uncovered by the first k entries of the log *)
UncoveredBy(k) == {log[i].cell : i \in {j \in UncoverIdx : j <= k}}

(* the revealed cells when the handler started, and after its k-th entry:
   uncover_all calls uncover on cells that are not revealed only *)
RevealedBefore == revealed \ UncoveredBy(Len(log))
RevealedAt(k) == RevealedBefore \cup UncoveredBy(k)

Terminal(i) == log[i].ev \in {"on_fail", "on_success"}

(* C1: on a board made with the guaranteed start, the first cell that ever
   becomes revealed is no mine. *)
C1_FirstRevealedIsNoMine ==
    (/\ DIFFICULTY_SETTINGS(difficulty).guaranteed_start
     /\ RevealedBefore = {}) =>
        \A i \in UncoverIdx :
            (\A j \in UncoverIdx : i <= j) => grid.grid[log[i].cell] # MINE

(* C8: once on_fail or on_success has been dispatched, no further cell
   becomes revealed: neither later in the same handler (the remaining
   reveals of a chord), nor, with the flags, by a later event of that
   game. *)
C8_TerminalIsAbsorbing ==
    /\ [](\A i \in 1 .. Len(log) : Terminal(i) =>
            \A j \in (i + 1) .. Len(log) : log[j].ev # "uncover")
    /\ [][(~attached /\ ~attached') => UNCHANGED << revealed, flags >>]_vars

(* C9, as claimed: on_success is dispatched exactly when an uncover makes the
   number of cells not revealed equal to the number of mines. *)
C9_SolvedIffCountsMeet ==
    /\ \A i \in UncoverIdx :
           (area(grid) - Cardinality(RevealedAt(i)) = DIFFICULTY_SETTINGS(difficulty).mines)
               <=> (i < Len(log) /\ log[i + 1].ev = "on_success")
    /\ \A i \in 1 .. Len(log) :
           log[i].ev = "on_success" => (i > 1 /\ log[i - 1].ev = "uncover")

(* C9, amended: on_success is dispatched exactly when the uncover of a cell
   that is no mine makes the number of cells not revealed equal to the
   number of mines; the uncover of a mine dispatches on_fail only. *)
C9_SolvedIffSafeUncoverMeetsCount ==
    /\ \A i \in UncoverIdx :
           (/\ grid.grid[log[i].cell] # MINE
            /\ area(grid) - Cardinality(RevealedAt(i))
                   = DIFFICULTY_SETTINGS(difficulty).mines)
               <=> (i < Len(log) /\ log[i + 1].ev = "on_success")
    /\ \A i \in 1 .. Len(log) :
           log[i].ev = "on_success" => (i > 1 /\ log[i - 1].ev = "uncover")

(* a flood fill of several cells whose last uncover solved the board, and no
   mine was ever revealed *)
C9_Witness ==
    /\ Len(log) >= 3
    /\ log[Len(log)].ev = "on_success"
    /\ Cardinality(UncoverIdx) >= 2
    /\ revealed \cap get_mines(grid) = {}

(* C10: whenever on_success is dispatched, the cells still covered are
   exactly the mines. *)
C10_SolvedLeavesTheMinesCovered ==
    \A i \in 1 .. Len(log) :
        log[i].ev = "on_success" =>
            \A cell \in DOMAIN grid.grid :
                (cell \notin RevealedAt(i)) <=> (grid.grid[cell] = MINE)

(* the terminal signals of the last handler *)
TerminalIdx == {i \in 1 .. Len(log) : Terminal(i)}

(* C11: in one game at most one terminal signal is ever dispatched: no
   handler dispatches on_fail or on_success twice, or both, and once a
   handler has dispatched one, the game gets no further signal (what comes
   next is a new game). *)
C11_AtMostOneTerminalSignal ==
    /\ [](Cardinality(TerminalIdx) <= 1)
    /\ [][~attached => (attached' /\ TerminalIdx' = {})]_vars

SweepIdx == {i \in 1 .. Len(log) : log[i].ev = "minesweep"}

(* the cell minesweep_from_cell was called on when the i-th entry of the log
   was made: the target of the last call of grid.minesweep before it *)
SweepTarget(i) ==
    log[CHOOSE j \in SweepIdx :
            j < i /\ \A k \in SweepIdx : k < i => k <= j].cell

(* C12: a mine is uncovered only as the target of the reveal that uncovers
   it (the cell of a left click or drag, or one neighbour of a chord): the
   cells a flood fill uncovers beyond its start are never mines. *)
C12_MineRevealedOnlyAsTarget ==
    \A i \in UncoverIdx :
        grid.grid[log[i].cell] = MINE => SweepTarget(i) = log[i].cell

(* one reveal flooded over at least three cells, next to a mine, on a board
   with two mines, and no mine is revealed *)
C12_Witness ==
    /\ Cardinality(get_mines(grid)) = 2
    /\ revealed \cap get_mines(grid) = {}
    /\ \E t \in DOMAIN grid.grid :
           /\ Cardinality({i \in UncoverIdx : SweepTarget(i) = t}) >= 3
           /\ \E i \in UncoverIdx :
                  /\ SweepTarget(i) = t
                  /\ log[i].cell # t
                  /\ grid.grid[log[i].cell] \in 1 .. 8

(* on_mouse_press(x, y, button, modifiers) with the pointer on the tile of
   row r and column c, in the state as it is *)
PressOn(button, r, c, drawn) ==
    LET tile == DIFFICULTY_SETTINGS(difficulty).tile
    IN  on_mouse_press(checkerboard, tile, c * tile, r * tile, button, drawn)

(* C13: a left click on a covered mine without a flag, on a generated grid,
   marks that cell revealed and no other, dispatches on_fail with its
   coordinate and nothing else, and leaves the flags and the grid alone. *)
C13_MineClickRevealsOnlyTheMine ==
    \A cell \in DOMAIN grid.grid :
        (/\ ~grid.empty
         /\ grid.grid[cell] = MINE
         /\ cell \notin flags
         /\ cell \notin revealed) =>
            LET cb == PressOn("LEFT", cell[1], cell[2], {})
            IN  /\ cb.revealed = revealed \cup {cell}
                /\ cb.flags = flags
                /\ cb.grid = grid
                /\ cb.log = << [ev |-> "minesweep", cell |-> cell],
                               [ev |-> "uncover", cell |-> cell],
                               [ev |-> "on_fail", cell |-> cell] >>

(* a click has hit a mine none of whose neighbours was revealed (so it was
   no chord), on a board with other cells revealed, a flag standing and the
   other mine still covered *)
C13_Witness ==
    /\ Len(log) = 3
    /\ log[1].ev = "minesweep" /\ log[3].ev = "on_fail"
    /\ log[3].cell = log[1].cell
    /\ grid.grid[log[1].cell] = MINE
    /\ MooreNeighbours(grid, log[1].cell) \cap revealed = {}
    /\ revealed \cap get_mines(grid) = {log[1].cell}
    /\ Cardinality(get_mines(grid)) = 2
    /\ Cardinality(revealed) >= 2
    /\ flags # {}

(* C14: a left click on a flagged cell changes nothing (no cell revealed, no
   flag, not the grid, nothing dispatched); and a flagged cell that a left
   click or a chord reveals by flood fill from another cell has lost its
   flag, with on_flag_remove dispatched. *)
C14_FlagBlocksRevealFloodClearsFlag ==
    /\ \A cell \in flags :
           \A drawn \in SamplesAt(cell[1], cell[2]) :
               PressOn("LEFT", cell[1], cell[2], drawn) = checkerboard
    /\ \A cell \in DOMAIN grid.grid, button \in {"LEFT", "MIDDLE"} :
           \A drawn \in (IF button = "LEFT"
                         THEN SamplesAt(cell[1], cell[2]) ELSE {{}}) :
               LET cb == PressOn(button, cell[1], cell[2], drawn)
               IN  \A f \in flags \cap cb.revealed :
                       /\ f \notin cb.flags
                       /\ \E i \in 1 .. Len(cb.log) :
                              cb.log[i] = [ev |-> "on_flag_remove", cell |-> f]

(* on_mouse_drag(x, y, dx, dy, buttons, modifiers) with the pointer on the
   tile of row r and column c, in the state as it is *)
DragOn(buttons, r, c, drawn) ==
    LET tile == DIFFICULTY_SETTINGS(difficulty).tile
    IN  on_mouse_drag(checkerboard, tile, c * tile, r * tile, buttons, drawn)

(* the rows and columns a pointer position can give: those of the board and
   one beyond each edge *)
PointerRows == -1 .. Rows
PointerColumns == -1 .. Columns

(* C15: in every reachable state of a game no press and no drag takes a cell
   out of the revealed ones; a right click on a revealed cell puts no flag
   on it; and no cell is both revealed and flagged. *)
C15_RevealedStaysAndHoldsNoFlag ==
    /\ revealed \cap flags = {}
    /\ \A cell \in revealed :
           cell \notin PressOn("RIGHT", cell[1], cell[2], {}).flags
    /\ \A r \in PointerRows, c \in PointerColumns :
           /\ \A button \in {"MIDDLE", "RIGHT"} :
                  revealed \subseteq PressOn(button, r, c, {}).revealed
           /\ revealed \subseteq DragOn("MIDDLE", r, c, {}).revealed
           /\ \A drawn \in SamplesAt(r, c) :
                  /\ revealed \subseteq PressOn("LEFT", r, c, drawn).revealed
                  /\ revealed \subseteq DragOn("LEFT", r, c, drawn).revealed

(* a flood fill from another cell has revealed a cell that was flagged, and
   a flag still stands on a covered cell *)
C15_Witness ==
    /\ flags # {}
    /\ Cardinality(revealed) >= 3
    /\ \E i \in 1 .. Len(log) :
           /\ log[i].ev = "on_flag_remove"
           /\ log[i].cell \in revealed
           /\ log[i].cell # log[1].cell

(* C16: minesweep_from_cell on a coordinate that is revealed already reveals
   nothing, dispatches nothing, and leaves the revealed cells, the flags and
   the grid as they are; so does the second of two calls on a coordinate
   that the first one revealed. *)
C16_RevealOfRevealedIsEmpty ==
    /\ \A cell \in revealed :
           \A drawn \in SamplesAt(cell[1], cell[2]) :
               minesweep_from_cell(checkerboard, cell[1], cell[2], drawn)
                   = checkerboard
    /\ \A r \in PointerRows, c \in PointerColumns :
           \A drawn \in SamplesAt(r, c) :
               LET once == minesweep_from_cell(checkerboard, r, c, drawn)
               IN  <<r, c>> \in once.revealed =>
                       minesweep_from_cell(once, r, c, {}) = once

(* a handler has dispatched nothing and revealed nothing on a running game
   with cells revealed, one of them with a number, and a flag standing *)
C16_Witness ==
    /\ attached
    /\ log = << >>
    /\ flags # {}
    /\ \E cell \in revealed : grid.grid[cell] \in 1 .. 8
    /\ minesweep_from_cell(checkerboard, 0, 0, {}) = checkerboard
    /\ <<0, 0>> \in revealed

(* the flagged cells among the neighbours of a cell *)
FlaggedAround(cell) == MooreNeighbours(grid, cell) \cap flags

(* C17: a middle click on a revealed cell with a number 1..8 reveals its
   neighbours exactly when the number of its flagged neighbours equals its
   number: then every neighbour that is covered and has no flag gets
   revealed; with fewer or more flags nothing is revealed, nothing is
   dispatched and nothing changes. *)
C17_ChordIffFlagsMatch ==
    \A cell \in revealed :
        grid.grid[cell] \in 1 .. 8 =>
            LET cb == PressOn("MIDDLE", cell[1], cell[2], {})
                covered == MooreNeighbours(grid, cell) \ (revealed \cup flags)
            IN  IF Cardinality(FlaggedAround(cell)) = grid.grid[cell]
                THEN /\ covered \subseteq cb.revealed
                     /\ {cb.log[i].cell : i \in {j \in 1 .. Len(cb.log) :
                                                    cb.log[j].ev = "minesweep"}}
                            \subseteq covered
                     /\ covered # {} => cb.log # << >>
                ELSE cb = checkerboard

(* a chord with the right flags has revealed two neighbours or more, one
   reveal each, and the game goes on *)
C17_Witness ==
    /\ attached
    /\ Cardinality(SweepIdx) >= 2
    /\ flags # {}
    /\ flags \subseteq get_mines(grid)
    /\ revealed \cap get_mines(grid) = {}

(* C18: a middle click on a cell that is not revealed, on a revealed cell
   with value 0 or on a revealed mine reveals nothing, dispatches nothing and
   changes neither the flags nor the grid, whatever flags stand around. *)
C18_ChordElsewhereIsNoOp ==
    \A cell \in DOMAIN grid.grid :
        (cell \notin revealed \/ grid.grid[cell] \in {0, MINE}) =>
            PressOn("MIDDLE", cell[1], cell[2], {}) = checkerboard

(* a handler has dispatched nothing in a running game with a revealed
   0-valued cell, a covered cell that is no mine and a flag: a middle click
   on either cell is such a handler *)
C18_Witness ==
    /\ attached
    /\ log = << >>
    /\ flags # {}
    /\ \E cell \in revealed : grid.grid[cell] = 0
    /\ \E cell \in DOMAIN grid.grid :
           cell \notin revealed /\ grid.grid[cell] # MINE

(* C19: toggle_flag(row, column) on a flagged cell removes the flag,
   dispatches on_flag_remove and returns False; on a cell of the board that
   is covered and has no flag it places a flag, dispatches on_flag_place and
   returns True; on any other coordinate (off the board, or revealed) it
   changes nothing, dispatches nothing and returns None.  It never changes
   the revealed cells or the grid. *)
C19_ToggleFlagCases ==
    \A r \in PointerRows, c \in PointerColumns :
        LET cell == <<r, c>>
            cb == toggle_flag(checkerboard, r, c)
            status == toggle_flag_status(checkerboard, r, c)
        IN  /\ cb.revealed = revealed
            /\ cb.grid = grid
            /\ IF cell \in flags
               THEN /\ cb.flags = flags \ {cell}
                    /\ cb.log = << [ev |-> "on_flag_remove", cell |-> cell] >>
                    /\ status = "False"
               ELSE IF cell \in DOMAIN grid.grid /\ cell \notin revealed
               THEN /\ cb.flags = flags \cup {cell}
                    /\ cb.log = << [ev |-> "on_flag_place", cell |-> cell] >>
                    /\ status = "True"
               ELSE /\ cb = checkerboard
                    /\ status = "None"

(* a right click has taken the flag off a covered cell, next to a revealed
   cell, while another flag stands *)
C19_Witness ==
    /\ Len(log) = 1
    /\ log[1].ev = "on_flag_remove"
    /\ log[1].cell \notin flags \cup revealed
    /\ MooreNeighbours(grid, log[1].cell) \cap revealed # {}
    /\ flags # {}

(* the coordinates outside the board that a pointer position can give *)
OutsideBoard == (PointerRows \X PointerColumns) \ DOMAIN grid.grid

(* C20: a left, right or middle click with coordinates outside the board
   changes nothing: the grid (generated or not), the revealed cells and the
   flags stay as they are, and nothing is dispatched. *)
C20_OutsideBoardIsNoOp ==
    \A cell \in OutsideBoard, button \in {"LEFT", "MIDDLE", "RIGHT"} :
        \A drawn \in (IF button = "LEFT"
                      THEN SamplesAt(cell[1], cell[2]) ELSE {{}}) :
            PressOn(button, cell[1], cell[2], drawn) = checkerboard

(* C21, as claimed: a right click on a cell of a board whose grid is not
   generated yet and on which nothing was revealed starts the game
   (has_started) and generates the grid, as the first reveal does. *)
C21_FirstFlagStartsAndGenerates ==
    \A cell \in DOMAIN grid.grid :
        (grid.empty /\ ~has_started /\ revealed = {}) =>
            LET cb == PressOn("RIGHT", cell[1], cell[2], {})
            IN  cb.has_started /\ ~cb.grid.empty

(* C21, amended: a right click on such a board places or removes the flag
   and nothing else: has_started stays false and the grid stays ungenerated
   with all its cells 0. *)
C21_FirstFlagOnlyFlags ==
    \A cell \in DOMAIN grid.grid :
        (grid.empty /\ ~has_started /\ revealed = {}) =>
            LET cb == PressOn("RIGHT", cell[1], cell[2], {})
            IN  /\ ~cb.has_started
                /\ cb.grid = grid
                /\ cb.revealed = {}
                /\ cb.flags = (flags \cup {cell}) \ (flags \cap {cell})
                /\ Len(cb.log) = 1
                /\ cb.log[1].ev = (IF cell \in flags THEN "on_flag_remove"
                                   ELSE "on_flag_place")

(* the first action of a game placed a flag: the game has not started and
   the grid is not generated *)
C21_Witness ==
    /\ grid.empty
    /\ ~has_started
    /\ revealed = {}
    /\ Cardinality(flags) = 1
    /\ Len(log) = 1
    /\ log[1].ev = "on_flag_place"

(* one of the samples random.sample could draw for the mines of this game:
   the first indices *)
SomeSample == 0 .. (clamp_mines(grid, DIFFICULTY_SETTINGS(difficulty).mines) - 1)

(* C22: once the grid of a game is generated, no press and no drag, with any
   button and at any pointer position, generates again or changes a cell
   value, even with a sample at hand that a generation could draw; the grid
   of a generated board changes only when the difficulty setter makes a new
   board. *)
C22_GeneratedOnce ==
    /\ [](~grid.empty =>
            \A r \in PointerRows, c \in PointerColumns :
                /\ \A button \in {"LEFT", "MIDDLE", "RIGHT"} :
                       PressOn(button, r, c, SomeSample).grid = grid
                /\ \A buttons \in {"LEFT", "MIDDLE"} :
                       DragOn(buttons, r, c, SomeSample).grid = grid)
    /\ [][(~grid.empty /\ grid' # grid) =>
              (revealed' = {} /\ flags' = {} /\ ~has_started' /\ attached')]_vars

(* a running game on a generated grid after a flag was placed and a chord
   made several reveals *)
C22_Witness ==
    /\ attached
    /\ ~grid.empty
    /\ DIFFICULTY_SETTINGS(difficulty).guaranteed_start
    /\ flags # {}
    /\ Cardinality(SweepIdx) >= 2

(* a board as Checkerboard.__init__ leaves it, for the difficulty of the
   state: nothing revealed, no flag, not started, attached to the window,
   and the grid of the preset's size, all 0 and not generated when the
   preset has the guaranteed start, generated with the preset's mines
   otherwise *)
FreshBoard ==
    LET s == DIFFICULTY_SETTINGS(difficulty)
    IN  /\ revealed = {}
        /\ flags = {}
        /\ ~has_started
        /\ attached
        /\ log = << >>
        /\ grid.rows = s.rows /\ grid.columns = s.columns
        /\ IF s.guaranteed_start
           THEN grid = Minefield(s.rows, s.columns)
           ELSE /\ ~grid.empty
                /\ Cardinality(get_mines(grid)) = Min(s.mines, area(grid))
                /\ CountsAreExact(grid)

(* C23: the difficulty setter can run in every state, EXPLODED and SOLVED
   included, and every step of it leaves a fresh board of the chosen
   difficulty that receives the mouse events again. *)
C23_ResetInstallsFreshBoard ==
    /\ [](ENABLED SetDifficulty)
    /\ [][SetDifficulty => FreshBoard']_vars

(* an exploded board with cells revealed and a flag standing, which the
   difficulty setter is about to replace *)
C23_Witness ==
    /\ ~attached
    /\ \E i \in 1 .. Len(log) : log[i].ev = "on_fail"
    /\ flags # {}
    /\ Cardinality(revealed) >= 2
    /\ has_started
    /\ ENABLED SetDifficulty

(* a Checkerboard made for a board of the size of the grid of the state with
   zero mines and the guaranteed start, with the flags fl placed and nothing
   revealed: its grid is still to be generated *)
ZeroMineBoard(fl) ==
    [grid |-> Minefield(grid.rows, grid.columns), mines |-> 0,
     revealed |-> {}, flags |-> fl, has_started |-> FALSE,
     attached |-> TRUE, log |-> << >>]

(* the sets of at most MaxFlags flagged cells that leave the cell free *)
FlagsBeside(cell) ==
    {fl \in SUBSET (DOMAIN grid.grid \ {cell}) : Cardinality(fl) <= MaxFlags}

(* C24: on a grid generated with zero mines, one reveal of any cell of the
   board (whatever flags stand on the other cells) reveals every cell in
   that one call, dispatches on_success exactly once, at the end, and never
   on_fail; the flood fill from that cell marks the whole grid. *)
C24_ZeroMinesOneRevealSolves ==
    (pc = "swept" /\ get_mines(grid) = {} /\ valid_index(grid, row, column)) =>
        /\ Uncovered(uncovered) = DOMAIN grid.grid
        /\ \A fl \in FlagsBeside(<<row, column>>) :
               LET cb == minesweep_from_cell(ZeroMineBoard(fl), row, column, {})
                   successes == {i \in 1 .. Len(cb.log) : cb.log[i].ev = "on_success"}
               IN  /\ cb.grid = grid
                   /\ cb.revealed = DOMAIN grid.grid
                   /\ cb.flags = {}
                   /\ Cardinality(successes) = 1
                   /\ \A i \in 1 .. Len(cb.log) : cb.log[i].ev # "on_fail"
                   /\ \A i \in successes, j \in 1 .. Len(cb.log) :
                          cb.log[j].ev = "uncover" => j < i

(* the flood fill of a 3 x 3 grid without mines from its middle cell has
   returned with every cell marked *)
C24_Witness ==
    /\ pc = "swept"
    /\ get_mines(grid) = {}
    /\ grid.rows = 3 /\ grid.columns = 3
    /\ row = 1 /\ column = 1
    /\ Uncovered(uncovered) = DOMAIN grid.grid

(* C25: for all dimensions from -1 up to those of the grid at hand,
   Minefield(rows, columns) fails with an invalid-dimensions error when
   rows <= 0 or columns <= 0; otherwise it raises nothing and gives a grid
   of rows x columns cells, all 0, not generated. *)
C25_ConstructorChecksDimensions ==
    \A rows \in -1 .. grid.rows, columns \in -1 .. grid.columns :
        LET made == NewMinefield(rows, columns)
        IN  IF rows <= 0 \/ columns <= 0
            THEN made.raised = "InvalidDimensions"
            ELSE /\ made.raised = "nothing"
                 /\ made.minefield.empty
                 /\ made.minefield.rows = rows
                 /\ made.minefield.columns = columns
                 /\ DOMAIN made.minefield.grid
                        = (0 .. rows - 1) \X (0 .. columns - 1)
                 /\ \A cell \in DOMAIN made.minefield.grid :
                        made.minefield.grid[cell] = 0

(* C26: grid[row][column] raises an out-of-bounds error for every row and
   column for which valid_index is false, negative ones included, and
   returns the stored value of the cell otherwise. *)
C26_CellQueryChecksBounds ==
    \A r \in (-grid.rows - 1) .. grid.rows, c \in (-grid.columns - 1) .. grid.columns :
        LET got == getitem(grid, r, c)
        IN  IF valid_index(grid, r, c)
            THEN got.raised = "nothing" /\ got.value = grid.grid[<<r, c>>]
            ELSE got.raised = "IndexError"

(***************************************************************************)
(* The claim about the three flood fills.                                  *)
(***************************************************************************)
Yielded == {queue[i] : i \in 1 .. Len(queue)}

(* C27: for every generated grid, start cell and initial mask, minesweep and
   recursive_minesweep return the same mask, the cells minesweep_iter yields
   are exactly the cells of that mask that the initial mask did not hold,
   and it yields none of them twice. *)
C27_FloodFillVariantsAgree ==
    pc = "variants_done" =>
        /\ marks = uncovered
        /\ Yielded = Uncovered(uncovered) \ positions
        /\ Cardinality(Yielded) = Len(queue)

(* the three have run from a 0-valued cell on a grid with a mine, with a
   0-valued cell uncovered in the initial mask: at least three cells were
   yielded, a numbered one among them, and a cell that is no mine stays
   covered *)
C27_Witness ==
    /\ pc = "variants_done"
    /\ get_mines(grid) # {}
    /\ valid_index(grid, row, column)
    /\ grid.grid[<<row, column>>] = 0
    /\ \E cell \in positions : grid.grid[cell] = 0
    /\ Len(queue) >= 3
    /\ \E cell \in Yielded : grid.grid[cell] \in 1 .. 8
    /\ \E cell \in DOMAIN grid.grid : grid.grid[cell] # MINE /\ ~uncovered[cell]

(* the revealed cells as a mask, and the mask minesweep makes when it gets
   none *)
RevealedMask == [cell \in DOMAIN grid.grid |-> cell \in revealed]
FreshMask == create_grid(grid.rows, grid.columns, FALSE)

(* C28: between two events every revealed cell with value 0 has all its
   neighbours on the board revealed; and for every start cell the flood fill
   from a fresh mask, less the cells revealed already, is the set of cells
   that the flood fill continued from the mask of the revealed cells adds to
   it. *)
C28_FreshFillLessRevealedIsContinuedFill ==
    /\ \A cell \in revealed :
           grid.grid[cell] = 0 => MooreNeighbours(grid, cell) \subseteq revealed
    /\ \A r \in PointerRows, c \in PointerColumns :
           Uncovered(minesweep(grid, r, c, FreshMask)) \ revealed
               = Uncovered(minesweep(grid, r, c, RevealedMask)) \ revealed

(* a game goes on after a flood fill that took a flag off a cell: a 0-valued
   cell is revealed, a cell that is no mine is still covered *)
C28_Witness ==
    /\ attached
    /\ \E cell \in revealed : grid.grid[cell] = 0
    /\ \E cell \in DOMAIN grid.grid : cell \notin revealed /\ grid.grid[cell] # MINE
    /\ \E i \in 1 .. Len(log) : log[i].ev = "on_flag_remove"
    /\ Cardinality(UncoverIdx) >= 3

(* the flags around the cell are right: each is on a mine, and they are as
   many as the number of the cell *)
FlagsAreRight(cell) ==
    /\ FlaggedAround(cell) \subseteq get_mines(grid)
    /\ Cardinality(FlaggedAround(cell)) = grid.grid[cell]

(* C29: a middle click on a revealed cell with a number 1..8, all of whose
   flagged neighbours are mines and as many as its number, reveals no mine
   and dispatches no on_fail, and leaves every neighbour without a flag
   revealed. *)
C29_RightFlagsChordIsSafe ==
    attached =>
        \A cell \in revealed :
            (grid.grid[cell] \in 1 .. 8 /\ FlagsAreRight(cell)) =>
                LET cb == PressOn("MIDDLE", cell[1], cell[2], {})
                IN  /\ (cb.revealed \ revealed) \cap get_mines(grid) = {}
                    /\ \A i \in 1 .. Len(cb.log) : cb.log[i].ev # "on_fail"
                    /\ MooreNeighbours(grid, cell) \ flags \subseteq cb.revealed

(* a chord with the right flags has revealed two neighbours or more, the
   last of them solving the board *)
C29_Witness ==
    /\ ~attached
    /\ Cardinality(SweepIdx) >= 2
    /\ \E i \in 1 .. Len(log) : log[i].ev = "on_success"
    /\ flags # {}
    /\ revealed = DOMAIN grid.grid \ get_mines(grid)

(***************************************************************************)
(* The window's handler stack.  A frame holds the handlers of one object:  *)
(* push_handlers puts a new frame on top, remove_handlers takes away the   *)
(* first frame from the top that holds handlers of the object, and         *)
(* dispatch_event goes down the frames the stack had when it was called,   *)
(* until a handler returns EVENT_HANDLED.  A frame is [owner, id], the id  *)
(* telling the frames of one object apart during a dispatch.               *)
(***************************************************************************)
MaxScale == 2
MaxInstalled == 3

(* diff_menu.dropdown.children, one tick box per difficulty *)
Children == <<"Easy", "Bosnia", "Lottery">>

(* the order of lines 783-796 and 815-828 *)
StackOrder ==
    <<"checkerboard", "diff_menu", "button", "dropdown">> \o Children
        \o <<"end_modal", "mute_button", "position_transformer">>

push_handlers(w, obj) ==
    [w EXCEPT !.stack = <<[owner |-> obj, id |-> w.next]>> \o @,
              !.next = @ + 1]

remove_handlers(w, obj) ==
    LET found == {i \in 1 .. Len(w.stack) : w.stack[i].owner = obj}
    IN  IF found = {} THEN w
        ELSE LET first == CHOOSE i \in found : \A j \in found : i <= j
             IN  [w EXCEPT !.stack = SubSeq(@, 1, first - 1)
                                         \o SubSeq(@, first + 1, Len(@))]

(* Game._setup_event_stack, from the k-th push on *)
RECURSIVE setup_from(_, _)
setup_from(w, k) ==
    IF k > Len(StackOrder) THEN w
    ELSE setup_from(push_handlers(w, StackOrder[k]), k + 1)

setup_event_stack(w) == setup_from(w, 1)

(* Game._remove_event_stack, from the k-th removal on *)
RECURSIVE remove_from(_, _)
remove_from(w, k) ==
    IF k > Len(StackOrder) THEN w
    ELSE remove_from(remove_handlers(w, StackOrder[k]), k + 1)

remove_event_stack(w) == remove_from(w, 1)

(* the difficulty setter, as far as the window's handlers go *)
difficulty_setter(w, value) ==
    setup_event_stack(remove_event_stack([w EXCEPT !.difficulty = value]))

(* what a handler below the transformer is called with *)
Reached(w, owner, e) ==
    [w EXCEPT !.delivered =
         Append(@, [to |-> owner, x |-> e.x, y |-> e.y, sent |-> e.sent])]

(* the checkerboard's mouse handlers: it has none for on_mouse_release; a
   press or a drag that ends the game has Game.on_fail or Game.on_success
   take the checkerboard off the window *)
checkerboard_on_mouse(w, e) ==
    IF e.type = "on_mouse_release" THEN w
    ELSE IF e.type \in {"on_mouse_press", "on_mouse_drag"} /\ e.ends
    THEN remove_handlers(Reached(w, "checkerboard", e), "checkerboard")
    ELSE Reached(w, "checkerboard", e)

(* the mouse handlers of the widgets: a press on a tick box of the dropdown
   dispatches on_select, a press on the end modal, shown once the game has
   ended, dispatches on_reset; Game.on_select and Game.on_reset assign the
   difficulty *)
widget_on_mouse(w, owner, e) ==
    IF e.type = "on_mouse_press" /\ e.hit = owner
    THEN IF \E i \in 1 .. Len(Children) : Children[i] = owner
         THEN difficulty_setter(Reached(w, owner, e), owner)
         ELSE IF owner = "end_modal"
                 /\ \A i \in 1 .. Len(w.stack) : w.stack[i].owner # "checkerboard"
         THEN difficulty_setter(Reached(w, owner, e), w.difficulty)
         ELSE Reached(w, owner, e)
    ELSE w

RECURSIVE dispatch_from(_, _, _, _)
RECURSIVE transformer_on_mouse(_, _)

(* Window.dispatch_event, from the k-th of the frames on: a frame that was
   removed since the call has no handler left *)
dispatch_from(w, frames, k, e) ==
    IF k > Len(frames) THEN w
    ELSE LET frame == frames[k]
         IN  IF \A i \in 1 .. Len(w.stack) : w.stack[i].id # frame.id
             THEN dispatch_from(w, frames, k + 1, e)
             ELSE IF frame.owner = "position_transformer"
             THEN transformer_on_mouse(w, e)
             ELSE IF frame.owner = "checkerboard"
             THEN dispatch_from(checkerboard_on_mouse(w, e), frames, k + 1, e)
             ELSE dispatch_from(widget_on_mouse(w, frame.owner, e), frames, k + 1, e)

(* PositionTransformer.on_mouse_press, on_mouse_motion, on_mouse_drag and
   on_mouse_release *)
transformer_on_mouse(w, e) ==
    LET scaled == [e EXCEPT !.x = @ \div w.scale[1], !.y = @ \div w.scale[2]]
        removed == remove_handlers(w, "position_transformer")
        returned == dispatch_from(removed, removed.stack, 1, scaled)
    IN  push_handlers(returned, "position_transformer")

dispatch_event(w, e) == dispatch_from(w, w.stack, 1, e)

(* the owners of the frames, top first *)
Owners(w) == [i \in 1 .. Len(w.stack) |-> w.stack[i].owner]

(* the window of the state, at the start of an event *)
window ==
    [stack |-> [i \in 1 .. Len(event_stack) |-> [owner |-> event_stack[i], id |-> i]],
     next |-> Len(event_stack) + 1,
     difficulty |-> difficulty, scale |-> scale, delivered |-> << >>]

(* how often the transformer is on the stack *)
Installed(stack) ==
    Cardinality({i \in 1 .. Len(stack) : stack[i] = "position_transformer"})

(* Game.__init__: the transformer's scale is (1, 1), the stack is set up *)
WindowInit ==
    /\ pc = "window"
    /\ n = 0 /\ clear_position = {} /\ positions = {}
    /\ row = 0 /\ column = 0 /\ queue = << >>
    /\ uncovered = << >> /\ marks = << >>
    /\ difficulty \in Difficulties
    /\ grid = Minefield(Rows, Columns)
    /\ revealed = {} /\ flags = {} /\ has_started = FALSE /\ log = << >>
    /\ attached = TRUE
    /\ scale = <<1, 1>>
    /\ delivered = << >>
    /\ event_stack = Owners(setup_event_stack(
                         [stack |-> << >>, next |-> 1, difficulty |-> difficulty,
                          scale |-> scale, delivered |-> << >>]))

(* the widgets whose press changes the handler stack, or none of them *)
Hits == {Children[i] : i \in 1 .. Len(Children)} \cup {"end_modal", "none"}

(* the first and the last pixel of the window before it is resized *)
Corners ==
    {<<0, 0>>, <<Columns * Tile - 1, Rows * Tile + HeaderHeight - 1>>}

(* a mouse event of the window, at a corner of the resized window; hits and
   endings are the widgets it may hit and whether it may end the game *)
MouseEvent(type, hits, endings) ==
    /\ pc = "window"
    /\ \E at \in Corners, ends \in endings, hit \in hits :
         LET sent == <<at[1] * scale[1] + scale[1] - 1, at[2] * scale[2] + scale[2] - 1>>
             w == dispatch_event(window,
                      [type |-> type, x |-> sent[1], y |-> sent[2], sent |-> sent,
                       hit |-> hit, ends |-> ends])
         IN  /\ Installed(Owners(w)) <= MaxInstalled
             /\ event_stack' = Owners(w)
             /\ difficulty' = w.difficulty
             /\ delivered' = w.delivered
             /\ attached' = \E i \in 1 .. Len(w.stack) : w.stack[i].owner = "checkerboard"
    /\ UNCHANGED << pc, grid, revealed, flags, has_started, log, scale,
                    genVars, sweepVars >>

WindowPress == MouseEvent("on_mouse_press", Hits, BOOLEAN)
WindowMotion == MouseEvent("on_mouse_motion", {"none"}, {FALSE})
WindowDrag == MouseEvent("on_mouse_drag", {"none"}, BOOLEAN)
WindowRelease == MouseEvent("on_mouse_release", {"none"}, {FALSE})

(* Game.on_resize *)
on_resize ==
    /\ pc = "window"
    /\ \E fx \in 1 .. MaxScale, fy \in 1 .. MaxScale :
         LET s == DIFFICULTY_SETTINGS(difficulty)
             width == fx * s.columns * s.tile
             height == fy * (s.rows * s.tile + HeaderHeight)
         IN  scale' = << width \div (s.columns * s.tile),
                         height \div (s.rows * s.tile + HeaderHeight) >>
    /\ delivered' = << >>
    /\ UNCHANGED << pc, grid, difficulty, revealed, flags, has_started, attached,
                    log, event_stack, genVars, sweepVars >>

WindowNext == WindowPress \/ WindowMotion \/ WindowDrag \/ WindowRelease \/ on_resize

WindowSpec == WindowInit /\ [][WindowNext]_vars

(* C30: between two events the transformer is on the window's handler stack
   exactly once, as its top frame, and every handler the last mouse event
   reached was called once, with the coordinates that were sent divided by
   the scale once. *)
C30_TransformerInstalledOnce ==
    /\ Installed(event_stack) = 1
    /\ event_stack[1] = "position_transformer"
    /\ \A i \in 1 .. Len(delivered) :
           /\ delivered[i].x = delivered[i].sent[1] \div scale[1]
           /\ delivered[i].y = delivered[i].sent[2] \div scale[2]
           /\ \A j \in 1 .. Len(delivered) :
                  delivered[j].to = delivered[i].to => j = i

====
